---- MODULE Spec2Model ----
(***************************************************************************)
(* Catalog generation pipeline of game-catalogue: the token manager        *)
(* (auth/token-manager.ts), the IGDB client (services/igdb-client.ts) and  *)
(* the batch loop of the template generator                                *)
(* (services/template-generator.ts), started from main (index.ts).         *)
(*                                                                         *)
(* The program is one Node.js event loop.  Every `await` of an I/O call    *)
(* (file read, file write, HTTP request, timer) is a suspension point, so  *)
(* every completion of such a call is one action; the synchronous code     *)
(* that runs between two suspension points is part of the action of the    *)
(* completion that resumes it.                                             *)
(***************************************************************************)
EXTENDS Integers, Sequences, FiniteSets, TLC

(***************************************************************************)
(* Bounds of the model                                                     *)
(***************************************************************************)
NumGames     == 2   \* entries of games.csv
MaxNow       == 1   \* clock ticks (ms) the run may last
MaxExchanges == 2   \* token exchanges the identity provider grants
RandRes      == 4   \* Math.random() takes the values k / RandRes, k < RandRes
FineRes      == 65536 \* 1 - 1/FineRes is the largest value of Math.random()
MaxSeconds   == 3   \* largest bound (s) of randomDelay examined beside the default
MaxWords     == 4   \* words of the longest search name handed to findBestGameMatch
MaxFound     == 2   \* candidates of the longest list handed to findBestGameMatch
NumTokens    == 3   \* distinct words of the names handed to calculateNameSimilarity
MaxTokens    == 3   \* words of the longest such name
MaxInvolved  == 2   \* involvement records of a game handed to mapToTemplateData
NumCompanies == 2   \* companies those records may reference

(***************************************************************************)
(* Program constants                                                       *)
(***************************************************************************)
bufferTime        == 5 * 60 * 1000     \* token-manager.ts:101
MsPerSecond       == 1000              \* token-manager.ts:79, part_000:36
DefaultMinSeconds == 5                 \* part_000:90
DefaultMaxSeconds == 30                \* part_000:90

\* Messages of the errors the code throws or receives.
ConfigMsg   == "TWITCH_CLIENT_ID and TWITCH_CLIENT_SECRET must be set in .env file"
ClientIdMsg == "TWITCH_CLIENT_ID must be set in environment variables"
AuthMsg     == "Token request failed: 400 Bad Request"
HttpMsg     == "Request failed with status code 429"
FsMsg       == "ENOSPC: no space left on device"
LoadMsg     == "ENOENT: no such file or directory"
NoDataReason == <<"No IGDB data found">>

(***************************************************************************)
(* TokenManager (auth/token-manager.ts)                                    *)
(***************************************************************************)
\* Contents of .token.json.  kind "cred" is a JSON credential record; the
\* other kinds are a missing file, a file that cannot be read, a file that
\* is not JSON, the JSON text `null`, and a JSON record without expires_at.
NoFile   == [kind |-> "missing", access_token |-> 0, expires_at |-> 0]
BadFile  == [kind |-> "garbage", access_token |-> 0, expires_at |-> 0]
UnreadableFile == [kind |-> "unreadable", access_token |-> 0, expires_at |-> 0]
NullFile == [kind |-> "null", access_token |-> 0, expires_at |-> 0]
NoExpiryFile == [kind |-> "noexpiry", access_token |-> 1, expires_at |-> 0]
\* An exception leaves the body of a try block.
Thrown == [kind |-> "threw", access_token |-> 0, expires_at |-> 0]
Cred(tok, exp) == [kind |-> "cred", access_token |-> tok, expires_at |-> exp]

\* The validity test of loadTokenFromFile: Date.now() < expires_at - bufferTime.
IsFreshMutLe(tokenData, t) == t <= tokenData.expires_at - bufferTime
IsFreshMutEarly(tokenData, t) == t + 1 < tokenData.expires_at - bufferTime
IsFresh(tokenData, t) == t < tokenData.expires_at - bufferTime

\* The try block of loadTokenFromFile: fs.readFile rejects for a missing or
\* unreadable file, JSON.parse throws on garbage, tokenData.expires_at
\* throws when tokenData is null; an absent expires_at makes the bound NaN,
\* and Date.now() < NaN is false.
TryLoad(content, t) ==
  CASE content.kind \in {"missing", "unreadable"} -> Thrown
    [] content.kind = "garbage" -> Thrown
    [] content.kind = "null" -> Thrown
    [] content.kind = "noexpiry" -> NoFile
    [] content.kind = "cred" ->
         IF IsFresh(content, t) THEN content ELSE NoFile

\* loadTokenFromFile: the credential, or NoFile for null; the catch block
\* turns every exception of the try block into null.
loadTokenFromFileMutNoCatch(content, t) == TryLoad(content, t)
loadTokenFromFile(content, t) ==
  LET tokenData == TryLoad(content, t)
  IN  IF tokenData.kind = "threw" THEN NoFile ELSE tokenData

\* saveTokenToFile builds the record it writes: expires_at from Date.now().
TokenDataOf(resp, t) ==
  Cred(resp.access_token, t + resp.expires_in * MsPerSecond)

\* requestAccessToken's guard on the environment.
HasCredentials(e) == e.clientId /\ e.clientSecret

\* The lifetimes (s) the identity provider grants: a new token outlives the
\* run, so only the credential cached by an earlier run can expire during it.
ExpiresInValues == {bufferTime \div MsPerSecond + MaxNow + 1}

\* One invocation of getValidToken / setupClient / the request that follows:
\*   ph    where the invocation is suspended: "read" (fs.readFile),
\*         "exchange" (axios.post to the identity provider), "save"
\*         (fs.writeFile), "post" (the metadata request), "ready" (the token
\*         was returned), "threw" (an exception leaves the invocation)
\*   obs   what the read returned and Date.now() when it was tested
\*   exch  token exchanges this invocation sent;  wrote  credentials it saved
\*   tok   the access token getValidToken returned;  pend  the record in writing
NoHeaders == [auth |-> 0, clientId |-> FALSE]
NoObs == [kind |-> "none", access_token |-> 0, expires_at |-> 0, at |-> 0]
\*   sent  the Authorization and Client-ID headers of the metadata request
\*   msg   the message of the exception;  thrown  the parts of the response
\*         that the message of a failed exchange is built from
NewCall ==
  [ph |-> "read", obs |-> NoObs, exch |-> 0, wrote |-> 0, tok |-> 0,
   pend |-> NoFile, msg |-> "", thrown |-> <<>>, sent |-> NoHeaders]

\* requestAccessToken up to its axios.post: the environment is checked, then
\* the request is sent.
requestAccessToken(c, e) ==
  IF ~HasCredentials(e)
    THEN [c EXCEPT !.ph = "threw", !.msg = ConfigMsg]
    ELSE [c EXCEPT !.ph = "exchange", !.exch = @ + 1]

\* refreshToken up to its first suspension: no read of the file.
refreshTokenMutCached(c, e) == [c EXCEPT !.ph = "read"]
refreshToken(c, e) == requestAccessToken(c, e)

\* getValidToken, resumed by the completion of fs.readFile with `content`;
\* an exception of loadTokenFromFile would leave getValidToken.
AfterLoad(c, content, t, e) ==
  LET ld  == loadTokenFromFile(content, t)
      c1  == [c EXCEPT !.obs = [kind |-> content.kind,
                                access_token |-> content.access_token,
                                expires_at |-> content.expires_at, at |-> t]]
  IN  IF ld.kind = "threw"
        THEN [c1 EXCEPT !.ph = "threw", !.msg = LoadMsg]
      ELSE IF ld.kind = "cred"
        THEN [c1 EXCEPT !.ph = "ready", !.tok = ld.access_token]
      ELSE requestAccessToken(c1, e)

\* The message requestAccessToken builds from a response with a
\* non-success status: the status and the status text.
AuthErrorParts(resp) == <<"Token request failed:", resp.status, resp.statusText>>

\* requestAccessToken resumed by the answer of the identity provider, then
\* saveTokenToFile up to its fs.writeFile.
AfterExchangeMutSaveAnyway(c, resp, t) ==
  IF resp.ok
    THEN [c EXCEPT !.ph = "save", !.pend = TokenDataOf(resp, t)]
    ELSE [c EXCEPT !.ph = "save", !.pend = TokenDataOf(resp, t),
                   !.msg = AuthMsg, !.thrown = AuthErrorParts(resp)]
AfterExchange(c, resp, t) ==
  IF resp.ok
    THEN [c EXCEPT !.ph = "save", !.pend = TokenDataOf(resp, t)]
    ELSE [c EXCEPT !.ph = "threw", !.msg = AuthMsg,
                   !.thrown = AuthErrorParts(resp)]

\* saveTokenToFile resumed by the completion of fs.writeFile; on success
\* getValidToken returns the new access token.
AfterSaveMutSwallow(c, ok) ==
  [c EXCEPT !.ph = "ready", !.wrote = IF ok THEN @ + 1 ELSE @,
            !.tok = c.pend.access_token]
AfterSave(c, ok) ==
  IF ok
    THEN [c EXCEPT !.ph = "ready", !.wrote = @ + 1,
                   !.tok = c.pend.access_token]
    ELSE [c EXCEPT !.ph = "threw", !.msg = FsMsg]

\* setupClient after getValidToken returned: the client id is required, then
\* the headers are set and the caller sends its request.
AfterToken(c, e) ==
  IF c.ph # "ready" THEN c
  ELSE IF ~e.clientId THEN [c EXCEPT !.ph = "threw", !.msg = ClientIdMsg]
  ELSE [c EXCEPT !.ph = "post"]

\* The default headers of the shared axios instance after the step that
\* left the invocation in state c: setupClient assigns Authorization and
\* Client-ID when it gets as far as the request.
HeadersAfterMutKeep(h, c, e) == h
HeadersAfter(h, c, e) ==
  IF c.ph = "post" THEN [auth |-> c.tok, clientId |-> e.clientId] ELSE h

\* this.client.post: the request is built from the default headers h as
\* they are when it is called.
Request(c, h) == IF c.ph = "post" THEN [c EXCEPT !.sent = h] ELSE c

(***************************************************************************)
(* TemplateGenerator.sanitizeFilename (services/template-generator.ts)     *)
(* A string is a sequence of one-character strings.                        *)
(***************************************************************************)
\* The character classes of the regular expressions of sanitizeFilename.
UnsafeChars == {"<", ">", ":", "\"", "/", "\\", "|", "?", "*"}
WordChars ==
  {"a", "b", "c", "d", "e", "f", "g", "A", "B", "0", "1", "2", "_"}
KeptChars == WordChars \cup {" ", "-", "_", "."}

\* replace(/[...]/g, '') and replace(/[^...]/g, '') for a character class.
Without(s, chars) == SelectSeq(s, LAMBDA c : c \notin chars)
Keeping(s, chars) == SelectSeq(s, LAMBDA c : c \in chars)

\* replace(/x+/g, '-') for a one-character x: every run of x becomes one
\* hyphen.
RECURSIVE RunsToHyphen(_, _)
RunsToHyphen(s, x) ==
  IF s = <<>> THEN <<>>
  ELSE IF Head(s) # x THEN <<Head(s)>> \o RunsToHyphen(Tail(s), x)
  ELSE IF Len(s) > 1 /\ s[2] = x THEN RunsToHyphen(Tail(s), x)
  ELSE <<"-">> \o RunsToHyphen(Tail(s), x)

\* replace(/^-+|-+$/g, ''): the hyphens at both ends are removed.
StripHyphens(s) ==
  LET solid == {k \in 1..Len(s) : s[k] # "-"}
  IN  IF solid = {} THEN <<>>
      ELSE SubSeq(s, CHOOSE k \in solid : \A m \in solid : k <= m,
                     CHOOSE k \in solid : \A m \in solid : k >= m)

\* The closing trim() finds no white space: every run of it is a hyphen.
sanitizeFilename(name) ==
  LET safe   == Without(name, UnsafeChars)
      kept   == Keeping(safe, KeptChars)
      dashed == RunsToHyphen(kept, " ")
      single == RunsToHyphen(dashed, "-")
  IN  StripHyphens(single)

(***************************************************************************)
(* TemplateGenerator.randomDelay (services/template-generator.ts)          *)
(***************************************************************************)
\* Math.random() returns r.num / r.den in [0, 1): the multiples of 1/RandRes
\* and the largest value below 1 the model represents.
RandomValues ==
  {[num |-> k, den |-> RandRes] : k \in 0..(RandRes - 1)}
    \cup {[num |-> FineRes - 1, den |-> FineRes]}

\* Math.floor(num / den) for den > 0, num >= 0.
Floor(num, den) == num \div den

\* The delay in ms that randomDelay waits when Math.random() returns r.
randomDelayMutCeil(minSeconds, maxSeconds, r) ==
  LET minMs == minSeconds * MsPerSecond
      maxMs == maxSeconds * MsPerSecond
  IN  Floor(r.num * (maxMs - minMs + 1) + r.den - 1, r.den) + minMs
randomDelay(minSeconds, maxSeconds, r) ==
  LET minMs == minSeconds * MsPerSecond
      maxMs == maxSeconds * MsPerSecond
      delay == Floor(r.num * (maxMs - minMs + 1), r.den) + minMs
  IN  delay

(***************************************************************************)
(* TemplateGenerator.findBestGameMatch and calculateNameSimilarity         *)
(* A string is a sequence of one-character strings.                        *)
(***************************************************************************)
LowerChar(c) == CASE c = "A" -> "a" [] c = "B" -> "b" [] OTHER -> c
toLowerCase(s) == [k \in 1..Len(s) |-> LowerChar(s[k])]
IsSpace(c) == c = " "

trim(s) ==
  LET solid == {k \in 1..Len(s) : ~IsSpace(s[k])}
  IN  IF solid = {} THEN <<>>
      ELSE SubSeq(s, CHOOSE k \in solid : \A m \in solid : k <= m,
                     CHOOSE k \in solid : \A m \in solid : k >= m)

includes(s, sub) ==
  \E k \in 1..(Len(s) - Len(sub) + 1) : SubSeq(s, k, k + Len(sub) - 1) = sub

\* s.split(/\s+/)
RECURSIVE split(_)
split(s) ==
  LET blanks == {k \in 1..Len(s) : IsSpace(s[k])}
  IN  IF blanks = {} THEN <<s>>
      ELSE LET b == CHOOSE k \in blanks : \A m \in blanks : k <= m
               after == {k \in (b + 1)..Len(s) : ~IsSpace(s[k])}
               rest == IF after = {} THEN <<>>
                       ELSE SubSeq(s, CHOOSE k \in after :
                                        \A m \in after : k <= m, Len(s))
           IN  <<SubSeq(s, 1, b - 1)>> \o split(rest)

Range(q) == {q[k] : k \in 1..Len(q)}

\* The score as the fraction num / den.
calculateNameSimilarity(str1, str2) ==
  LET s1 == trim(toLowerCase(str1))
      s2 == trim(toLowerCase(str2))
      words1 == split(s1)
      words2 == split(s2)
      allWords == Range(words1) \cup Range(words2)
      commonWords == {k \in 1..Len(words1) : words1[k] \in Range(words2)}
  IN  IF s1 = s2 THEN [num |-> 1, den |-> 1]
      ELSE IF includes(s1, s2) \/ includes(s2, s1) THEN [num |-> 4, den |-> 5]
      ELSE [num |-> Cardinality(commonWords), den |-> Cardinality(allWords)]

\* a.score > b.score, and score > 0.6
ScoreGt(a, b) == a.num * b.den > b.num * a.den
AboveThresholdMutGe(sc) == ~ScoreGt([num |-> 3, den |-> 5], sc)
AboveThreshold(sc) == ScoreGt(sc, [num |-> 3, den |-> 5])

NoGame == [id |-> 0, name |-> <<>>]

\* The candidate chosen among the search results, NoGame for null.
findBestGameMatchMutTopFallback(searchName, found) ==
  LET searchLower == trim(toLowerCase(searchName))
      exact == {k \in 1..Len(found) :
                  trim(toLowerCase(found[k].name)) = searchLower}
      score(k) == calculateNameSimilarity(searchName, found[k].name)
      top == CHOOSE k \in 1..Len(found) :
               /\ \A m \in 1..Len(found) : ~ScoreGt(score(m), score(k))
               /\ \A m \in 1..(k - 1) : ScoreGt(score(k), score(m))
  IN  IF exact # {} THEN found[CHOOSE k \in exact : \A m \in exact : k <= m]
      ELSE IF Len(found) > 0 THEN found[top]
      ELSE NoGame
findBestGameMatchMutLastExact(searchName, found) ==
  LET searchLower == trim(toLowerCase(searchName))
      exact == {k \in 1..Len(found) :
                  trim(toLowerCase(found[k].name)) = searchLower}
  IN  IF exact # {} THEN found[CHOOSE k \in exact : \A m \in exact : k >= m]
      ELSE IF Len(found) > 0 THEN found[1]
      ELSE NoGame
findBestGameMatchMutNoFallback(searchName, found) ==
  LET searchLower == trim(toLowerCase(searchName))
      exact == {k \in 1..Len(found) :
                  trim(toLowerCase(found[k].name)) = searchLower}
      score(k) == calculateNameSimilarity(searchName, found[k].name)
      top == CHOOSE k \in 1..Len(found) :
               /\ \A m \in 1..Len(found) : ~ScoreGt(score(m), score(k))
               /\ \A m \in 1..(k - 1) : ScoreGt(score(k), score(m))
  IN  IF exact # {} THEN found[CHOOSE k \in exact : \A m \in exact : k <= m]
      ELSE IF Len(found) > 0 /\ AboveThreshold(score(top)) THEN found[top]
      ELSE NoGame
findBestGameMatch(searchName, found) ==
  LET searchLower == trim(toLowerCase(searchName))
      exact == {k \in 1..Len(found) :
                  trim(toLowerCase(found[k].name)) = searchLower}
      score(k) == calculateNameSimilarity(searchName, found[k].name)
      \* the head of the stable descending sort: the first of the best
      top == CHOOSE k \in 1..Len(found) :
               /\ \A m \in 1..Len(found) : ~ScoreGt(score(m), score(k))
               /\ \A m \in 1..(k - 1) : ScoreGt(score(k), score(m))
  IN  IF exact # {} THEN found[CHOOSE k \in exact : \A m \in exact : k <= m]
      ELSE IF Len(found) > 0 /\ AboveThreshold(score(top)) THEN found[top]
      ELSE IF Len(found) > 0 THEN found[1]
      ELSE NoGame

(***************************************************************************)
(* CSVParser (utils/csv-parser.ts): the writer of unprocessed-games.csv    *)
(* and the reader of a CSV line.  A field is a sequence of characters.     *)
(***************************************************************************)
\* field.replace(/"/g, '""')
RECURSIVE DoubleQuotes(_)
DoubleQuotes(field) ==
  IF field = <<>> THEN <<>>
  ELSE (IF Head(field) = "\"" THEN <<"\"", "\"">> ELSE <<Head(field)>>)
         \o DoubleQuotes(Tail(field))

\* escapeCsvField of saveUnprocessedGames.
escapeCsvFieldMutPlain(field) == field
escapeCsvField(field) ==
  IF \E k \in 1..Len(field) : field[k] \in {",", "\"", "\n"}
    THEN <<"\"">> \o DoubleQuotes(field) \o <<"\"">>
    ELSE field

\* One line of unprocessed-games.csv: the five fields joined by commas.
CsvLine(game) ==
  escapeCsvField(game.name) \o <<",">> \o escapeCsvField(game.status)
    \o <<",">> \o escapeCsvField(game.platform)
    \o <<",">> \o escapeCsvField(game.notes)
    \o <<",">> \o escapeCsvField(game.reason)

\* The lines saveUnprocessedGames writes below the header.
CsvLines(list) == [k \in 1..Len(list) |-> CsvLine(list[k])]

\* The loop of parseCSVLine from character i on: fields is the list so far,
\* cur the field in hand, inQuotes the quote state.
RECURSIVE ScanLine(_, _, _, _, _)
ScanLine(line, i, fields, cur, inQuotes) ==
  IF i > Len(line) THEN Append(fields, trim(cur))
  ELSE IF line[i] = "\"" THEN ScanLine(line, i + 1, fields, cur, ~inQuotes)
  ELSE IF line[i] = "," /\ ~inQuotes
    THEN ScanLine(line, i + 1, Append(fields, trim(cur)), <<>>, inQuotes)
  ELSE ScanLine(line, i + 1, fields, Append(cur, line[i]), inQuotes)

\* field.replace(/"/g, '').trim()
Unquoted(field) == trim(SelectSeq(field, LAMBDA c : c # "\""))

\* The fields of a line, as parseCSVLine returns the first four of them.
LineFields(line) ==
  LET fields == ScanLine(line, 1, <<>>, <<>>, FALSE)
  IN  [k \in 1..Len(fields) |-> Unquoted(fields[k])]

(***************************************************************************)
(* State                                                                   *)
(***************************************************************************)
VARIABLES
  env,              \* process.env: which of the client id / secret are set
  tokenFile,        \* contents of .token.json
  now,              \* Date.now(), in ms since the start of the run
  issued,           \* tokens the identity provider has granted so far
  pc,               \* where main / generateAllGameTemplates is suspended
  idx,              \* the loop variable i of the batch loop, plus one
  call,             \* the token / request invocation main is suspended in
  tasks,            \* the relational sub-fetches of Promise.all in flight
  processedCount,   \* generateAllGameTemplates: processedCount
  failedGames,      \* generateAllGameTemplates: failedGames
  unprocessedGames, \* generateAllGameTemplates: unprocessedGames
  docs,             \* the markdown files of the output directory, and whose
  report,           \* the lines of unprocessed-games.csv below its header
  summary,          \* the three counts logged at the end of the batch
  hist,             \* per entry: what has happened to it so far
  delayMs,          \* the delay of the randomDelay in progress or last done
  dMin, dMax,       \* the bounds (s) handed to that randomDelay
  headers,          \* IGDBClient.client.defaults.headers: token and client id
  args,             \* the arguments of the match function under examination
  ret               \* what it returned

progVars ==
  <<env, tokenFile, now, issued, pc, idx, call, tasks, processedCount,
    failedGames, unprocessedGames, docs, report, summary, hist,
    delayMs, dMin, dMax, headers>>
vars == <<progVars, args, ret>>

\* No match function is under examination, and none has returned.
NoArgs ==
  [fn |-> "none", str1 |-> <<>>, str2 |-> <<>>, games |-> <<>>,
   involvedCompanies |-> <<>>, companies |-> <<>>]
NoRet ==
  [done |-> FALSE, game |-> NoGame, score |-> [num |-> 0, den |-> 1],
   developers |-> <<>>, publishers |-> <<>>]

\* games.csv as parsed by CSVParser.parseGamesCSV: NumGames rows with the
\* distinct names "a", "a,", "a,,", ...; a parsed field is trimmed and holds
\* no double quote, and may hold a comma.
GameName(j) == <<"a">> \o [k \in 1..(j - 1) |-> ","]
games ==
  [j \in 1..NumGames |->
     [name |-> GameName(j), status |-> <<"C">>, platform |-> <<"p", "c">>,
      notes |-> <<>>]]

NoHist ==
  [starts |-> 0, searches |-> 0, threw |-> "", threwIn |-> "",
   delays |-> 0, outcomes |-> 0, result |-> "", answer |-> "",
   lookups |-> 0, resolved |-> ""]
NoSummary == [emitted |-> FALSE, succeeded |-> 0, unmatched |-> 0, failed |-> 0]

\* The orchestrator's part of the state as one record, so that the
\* synchronous code between two suspension points composes as functions.
Cur ==
  [pc |-> pc, idx |-> idx, call |-> call, processedCount |-> processedCount,
   failedGames |-> failedGames, unprocessedGames |-> unprocessedGames,
   docs |-> docs, summary |-> summary, hist |-> hist, delayMs |-> delayMs,
   dMin |-> dMin, dMax |-> dMax]

Settled(o) ==
  /\ pc' = o.pc
  /\ idx' = o.idx
  /\ call' = o.call
  /\ processedCount' = o.processedCount
  /\ failedGames' = o.failedGames
  /\ unprocessedGames' = o.unprocessedGames
  /\ docs' = o.docs
  /\ summary' = o.summary
  /\ hist' = o.hist
  /\ delayMs' = o.delayMs
  /\ dMin' = o.dMin
  /\ dMax' = o.dMax

(***************************************************************************)
(* TemplateGenerator.generateAllGameTemplates, between suspension points   *)
(***************************************************************************)
Unprocessed(game, reason) ==
  [name |-> game.name, status |-> game.status, platform |-> game.platform,
   notes |-> game.notes, reason |-> reason]

\* The summary lines logged after the loop (lines 113-116).
Summary(o) ==
  [o EXCEPT
     !.pc = "done",
     !.summary =
       [emitted |-> TRUE, succeeded |-> o.processedCount,
        unmatched |-> Cardinality({k \in 1..Len(o.unprocessedGames) :
                         o.unprocessedGames[k].reason = NoDataReason}),
        failed |-> Cardinality({k \in 1..Len(o.unprocessedGames) :
                         o.unprocessedGames[k].reason[1] = "Error:"})]]

\* After the loop (lines 108-111): saveUnprocessedGames when there is
\* something to report, suspended in its fs.writeFile.
AfterLoopMutAlways(o) == [o EXCEPT !.pc = "report"]
AfterLoop(o) ==
  IF Len(o.unprocessedGames) > 0 THEN [o EXCEPT !.pc = "report"] ELSE Summary(o)

\* The head of one loop iteration (lines 62-68): generateTemplateData calls
\* searchGames, which is suspended in the fs.readFile of loadTokenFromFile.
StartEntry(o, j) ==
  [o EXCEPT !.pc = "search", !.idx = j, !.call = NewCall,
            !.hist[j].starts = @ + 1]

\* i++ and the loop test (line 61).
LoopNext(o) ==
  IF o.idx + 1 <= NumGames THEN StartEntry(o, o.idx + 1) ELSE AfterLoop(o)

\* Lines 88-91: the delay between requests, except after the last game.
\* pc "pace" marks that randomDelay is entered; it draws its random number
\* in the same step (Become), so "pace" is never the pc of a state.
Pace(o) ==
  IF o.idx - 1 < NumGames - 1 THEN [o EXCEPT !.pc = "pace"] ELSE LoopNext(o)

\* randomDelay(5, 30) up to its setTimeout, with Math.random() = r.
StartDelay(o, r) ==
  [o EXCEPT !.pc = "delay", !.dMin = DefaultMinSeconds,
            !.dMax = DefaultMaxSeconds,
            !.delayMs = randomDelay(DefaultMinSeconds, DefaultMaxSeconds, r),
            !.hist[o.idx].delays = @ + 1]

\* Lines 77-86: generateTemplateData returned null.
RecordUnmatched(o) ==
  [o EXCEPT
     !.unprocessedGames = Append(@, Unprocessed(games[o.idx], NoDataReason)),
     !.hist[o.idx].outcomes = @ + 1,
     !.hist[o.idx].result = "Unmatched"]

\* Lines 69-76: the markdown file was written.
RecordSucceededMutUnmatched(o) == RecordUnmatched(o)
RecordSucceededMutAlsoRow(o) ==
  [o EXCEPT
     !.processedCount = @ + 1,
     !.unprocessedGames = Append(@, Unprocessed(games[o.idx], NoDataReason)),
     !.hist[o.idx].outcomes = @ + 1,
     !.hist[o.idx].result = "Succeeded"]
RecordSucceeded(o) ==
  [o EXCEPT !.processedCount = @ + 1, !.hist[o.idx].outcomes = @ + 1,
            !.hist[o.idx].result = "Succeeded"]

\* Lines 93-105: the catch of the loop body.
RecordFailedMutNoPrefix(o, message) ==
  [o EXCEPT
     !.failedGames = Append(@, [name |-> games[o.idx].name, error |-> message]),
     !.unprocessedGames = Append(@, Unprocessed(games[o.idx], <<message>>)),
     !.hist[o.idx].outcomes = @ + 1,
     !.hist[o.idx].result = "Failed"]
RecordFailed(o, message) ==
  [o EXCEPT
     !.failedGames = Append(@, [name |-> games[o.idx].name, error |-> message]),
     !.unprocessedGames =
        Append(@, Unprocessed(games[o.idx], <<"Error:", message>>)),
     !.hist[o.idx].outcomes = @ + 1,
     !.hist[o.idx].result = "Failed"]

\* generateTemplateData returns null to the loop body, which records the
\* entry and paces.
EntryNullMutWrite(o) ==
  Pace(RecordUnmatched(
         [o EXCEPT !.docs = @ \cup {[file |-> sanitizeFilename(games[o.idx].name),
                                     by |-> o.idx]}]))
EntryNull(o) == Pace(RecordUnmatched(o))

\* An exception inside generateTemplateData (its own catch, lines 155-158)
\* or inside getExpandedGameData (its catch, lines 277-280): logged, and
\* null is returned.
CaughtInsideMutSkip(o, message) == LoopNext(o)
CaughtInsideMutPartial(o, message) ==
  LET o1 == [o EXCEPT !.hist[o.idx].threw = message,
                      !.hist[o.idx].threwIn =
                         IF o.pc = "search" THEN "search" ELSE "resolve"]
  IN  IF o.pc = "join"
        THEN [o1 EXCEPT !.pc = "write", !.hist[o.idx].resolved = "ready"]
        ELSE EntryNull(o1)
CaughtInside(o, message) ==
  EntryNull([o EXCEPT !.hist[o.idx].threw = message,
                      !.hist[o.idx].threwIn =
                         IF o.pc = "search" THEN "search" ELSE "resolve"])

\* An exception in the loop body outside generateTemplateData: the catch of
\* the loop records it and the loop goes on, without the delay.
CaughtByLoopMutRethrow(o, message) ==
  [o EXCEPT !.pc = "exit", !.hist[o.idx].threw = message]
CaughtByLoop(o, message) ==
  LoopNext(RecordFailed([o EXCEPT !.hist[o.idx].threw = message,
                                  !.hist[o.idx].threwIn = "write"], message))

(***************************************************************************)
(* The external services                                                   *)
(***************************************************************************)
\* What a POST to the identity provider may answer when it has granted n
\* tokens so far: a new token, or a non-success status.
Rejected ==
  [ok |-> FALSE, access_token |-> 0, expires_in |-> 0, status |-> "400",
   statusText |-> "Bad Request", data |-> "invalid client secret"]
TokenAnswers(n) ==
  {Rejected}
    \cup (IF n < MaxExchanges
            THEN {[ok |-> TRUE, access_token |-> n + 1, expires_in |-> x,
                   status |-> "200", statusText |-> "OK", data |-> ""] :
                    x \in ExpiresInValues}
            ELSE {})

\* What a search for `name` may return: nothing, the game itself, or a
\* longer title.
SearchAnswers(name) ==
  { <<>>,
    <<[id |-> 1, name |-> name]>>,
    <<[id |-> 2, name |-> name \o <<" ", "b">>], [id |-> 1, name |-> name]>> }

\* expandedData.companies.find(c => c.id === id): the first company with the
\* id, or NoCompany for undefined.
NoCompany == [id |-> 0, name |-> ""]
FindCompany(companies, id) ==
  LET ks == {k \in 1..Len(companies) : companies[k].id = id}
  IN  IF ks = {} THEN NoCompany
      ELSE companies[CHOOSE k \in ks : \A m \in ks : k <= m]

\* The names pushed by the loop of mapToTemplateData for one of the two
\* flags, in the order of the involvement records.
RECURSIVE PushedNames(_, _, _)
PushedNames(involved, companies, flag) ==
  IF involved = <<>> THEN <<>>
  ELSE LET involvedCompany == Head(involved)
           company == FindCompany(companies, involvedCompany.company)
       IN  (IF company # NoCompany /\ involvedCompany[flag]
              THEN <<company.name>> ELSE <<>>)
             \o PushedNames(Tail(involved), companies, flag)

\* mapToTemplateData: the developers and publishers of the template data.
mapToTemplateDataMutAnyFlag(involved, companies) ==
  [developers |-> PushedNames(involved, companies, "developer"),
   publishers |->
     PushedNames([k \in 1..Len(involved) |->
                    [involved[k] EXCEPT !.publisher = TRUE]],
                 companies, "publisher")]
mapToTemplateData(involved, companies) ==
  [developers |-> PushedNames(involved, companies, "developer"),
   publishers |-> PushedNames(involved, companies, "publisher")]

\* The foreign-key lists of a game record (IGDBGame, part_002).
PlainRelations ==
  {"genres", "platforms", "game_modes", "themes", "player_perspectives",
   "game_engines"}
GameWith(rels) ==
  [r \in PlainRelations \cup {"involved_companies"} |->
     IF r \in rels THEN <<1>> ELSE <<>>]
GameRecords ==
  { GameWith({}), GameWith({"genres"}), GameWith({"involved_companies"}) }

(***************************************************************************)
(* IGDBClient.getExpandedGameData: the fan-out of Promise.all              *)
(***************************************************************************)
\* The calls of lines 250-263 that reach a suspension point: each is
\* suspended in the fs.readFile of its own setupClient.  A call with an
\* empty id list returns [] at once and is no task.
Dispatch(game, owner) ==
  {[owner |-> owner, rel |-> r, stage |-> 1, call |-> NewCall] :
      r \in {x \in DOMAIN game : game[x] # <<>>}}
    \cup (IF game["involved_companies"] # <<>>
            THEN {[owner |-> owner, rel |-> "companies", stage |-> 1,
                   call |-> NewCall]}
            ELSE {})

\* main resumes with the invocation in state c (after setupClient, except
\* in main's own getValidToken).
Resume(o, c) ==
  IF o.pc = "auth" THEN
    IF c.ph = "threw" THEN [o EXCEPT !.pc = "exit", !.call = c]
    ELSE IF c.ph = "ready" THEN [o EXCEPT !.pc = "parse", !.call = c]
    ELSE [o EXCEPT !.call = c]
  ELSE
    IF c.ph = "threw" THEN CaughtInside([o EXCEPT !.call = c], c.msg)
    ELSE IF c.ph = "post" /\ o.pc = "search"
      THEN [o EXCEPT !.call = c, !.hist[o.idx].searches = @ + 1]
    ELSE IF c.ph = "post" /\ o.pc = "games"
      THEN [o EXCEPT !.call = c, !.hist[o.idx].lookups = @ + 1]
    ELSE [o EXCEPT !.call = c]

\* searchGames returned `found` to generateTemplateData (lines 131-148):
\* null for an empty list or no match, else on to getExpandedGameData, whose
\* getGames is suspended in the fs.readFile of its setupClient.
SearchReturnedMutLookup(o, found) ==
  [o EXCEPT !.hist[o.idx].answer = IF Len(found) = 0 THEN "empty" ELSE "exact",
            !.pc = "games", !.call = NewCall]
SearchReturned(o, found) ==
  LET o1 == [o EXCEPT !.hist[o.idx].answer =
                        IF Len(found) = 0 THEN "empty"
                        ELSE IF \E k \in 1..Len(found) :
                                  found[k].name = games[o.idx].name
                          THEN "exact"
                        ELSE "other"]
  IN  IF Len(found) = 0 THEN EntryNull(o1)
      ELSE IF findBestGameMatch(games[o.idx].name, found) = NoGame
        THEN EntryNull(o1)
      ELSE [o1 EXCEPT !.pc = "games", !.call = NewCall]

AfterSetup(c) == IF pc = "auth" THEN c ELSE AfterToken(c, env)

\* getGames returned no record (line 235): getExpandedGameData returns null.
BaseMissingMutThrow(o) ==
  CaughtInside([o EXCEPT !.hist[o.idx].resolved = "missing"], HttpMsg)
BaseMissing(o) == EntryNull([o EXCEPT !.hist[o.idx].resolved = "missing"])

\* getGames returned `game` (lines 237-264): the sub-fetches are started and
\* Promise.all awaited.
BaseFound(o, game) ==
  [o EXCEPT !.pc = "join", !.hist[o.idx].resolved = "base"]

\* Promise.all fulfilled (lines 266-276): the expanded data is mapped,
\* generateMarkdown renders it and the loop is suspended in fs.writeFile.
Resolved(o) == [o EXCEPT !.pc = "write", !.hist[o.idx].resolved = "ready"]

(***************************************************************************)
(* Actions of main and the batch loop                                      *)
(***************************************************************************)
\* The step ends in orchestrator state o; a randomDelay entered in the step
\* draws its random number.
Become(o) ==
  IF o.pc = "pace"
    THEN \E r \in RandomValues : Settled(StartDelay(o, r))
    ELSE Settled(o)

\* unprocessed-games.csv as an earlier run over the same games.csv left it:
\* one line, for the first entry.  The program never reads the file, so a
\* run that starts without it behaves the same.
OldReport == CsvLines(<<Unprocessed(games[1], NoDataReason)>>)

\* The credential an earlier run left behind: none, a file that is not
\* JSON, or a credential that is stale now, goes stale at the first tick of
\* the clock, or outlives the run.
Boot ==
  /\ env \in [clientId : BOOLEAN, clientSecret : BOOLEAN]
  /\ tokenFile \in {NoFile, BadFile}
                     \cup {Cred(1, bufferTime + d) : d \in {0, 1, MaxNow + 1}}
  /\ now = 0
  /\ issued = IF tokenFile.kind = "cred" THEN 1 ELSE 0
  /\ pc = "auth"          \* index.ts:18, suspended in loadTokenFromFile
  /\ idx = 0
  /\ call = NewCall
  /\ tasks = {}
  /\ processedCount = 0
  /\ failedGames = <<>>
  /\ unprocessedGames = <<>>
  /\ docs = {}
  /\ report = OldReport
  /\ summary = NoSummary
  /\ hist = [j \in 1..NumGames |-> NoHist]
  /\ delayMs = 0
  /\ dMin = 0
  /\ dMax = 0
  /\ headers = NoHeaders

Init == Boot /\ args = NoArgs /\ ret = NoRet

InAuth == pc \in {"auth", "search", "games"}

\* fs.readFile of loadTokenFromFile completes in main's invocation.
MainRead ==
  /\ InAuth /\ call.ph = "read"
  /\ LET c == AfterSetup(AfterLoad(call, tokenFile, now, env))
     IN  /\ headers' = HeadersAfter(headers, c, env)
         /\ Become(Resume(Cur, Request(c, headers')))
  /\ UNCHANGED <<env, tokenFile, now, issued, tasks, report>>
  /\ UNCHANGED <<args, ret>>

\* The identity provider answers main's token request.
MainExchange ==
  /\ InAuth /\ call.ph = "exchange"
  /\ \E resp \in TokenAnswers(issued) :
       /\ issued' = IF resp.ok THEN issued + 1 ELSE issued
       /\ Become(Resume(Cur, AfterExchange(call, resp, now)))
  /\ UNCHANGED <<env, tokenFile, now, tasks, report>>
  /\ UNCHANGED <<headers, args, ret>>

\* fs.writeFile of saveTokenToFile completes in main's invocation; a write
\* that fails leaves the file as it was.
MainSave ==
  /\ InAuth /\ call.ph = "save"
  /\ \E ok \in BOOLEAN :
       /\ tokenFile' = IF ok THEN call.pend ELSE tokenFile
       /\ LET c == AfterSetup(AfterSave(call, ok))
          IN  /\ headers' = HeadersAfter(headers, c, env)
              /\ Become(Resume(Cur, Request(c, headers')))
  /\ UNCHANGED <<env, now, issued, tasks, report>>
  /\ UNCHANGED <<args, ret>>

\* CSVParser.parseGamesCSV and fs.mkdir complete (lines 49-55), or fail.
ParseDone ==
  /\ pc = "parse"
  /\ \E ok \in BOOLEAN :
       Become(IF ok THEN StartEntry(Cur, 1) ELSE [Cur EXCEPT !.pc = "exit"])
  /\ UNCHANGED <<env, tokenFile, now, issued, tasks, report>>
  /\ UNCHANGED <<headers, args, ret>>

\* The search request of searchGames is answered (lines 66-73), and
\* generateTemplateData goes on to getExpandedGameData -> getGames.
SearchDone ==
  /\ pc = "search" /\ call.ph = "post"
  /\ \/ Become(CaughtInside(Cur, HttpMsg))
     \/ \E found \in SearchAnswers(games[idx].name) :
          Become(SearchReturned(Cur, found))
  /\ UNCHANGED <<env, tokenFile, now, issued, tasks, report>>
  /\ UNCHANGED <<headers, args, ret>>

\* The request of getGames is answered (lines 234-264).
GamesDone ==
  /\ pc = "games" /\ call.ph = "post"
  /\ \/ /\ Become(CaughtInside(Cur, HttpMsg))
        /\ tasks' = tasks
     \/ /\ Become(BaseMissing(Cur))
        /\ tasks' = tasks
     \/ \E game \in GameRecords :
          /\ tasks' = tasks \cup Dispatch(game, idx)
          /\ Become(IF Dispatch(game, idx) = {}
                      THEN Resolved(BaseFound(Cur, game))
                      ELSE BaseFound(Cur, game))
  /\ UNCHANGED <<env, tokenFile, now, issued, report>>
  /\ UNCHANGED <<headers, args, ret>>

\* The output directory after fs.writeFile(filePath, markdown) for entry j:
\* the file named by the sanitized name holds the document of entry j,
\* whatever it held before.
Written(dir, name, j) ==
  LET file == sanitizeFilename(name)
  IN  {d \in dir : d.file # file} \cup {[file |-> file, by |-> j]}

\* fs.writeFile of the markdown file completes (lines 74-76) or fails.
WriteDone ==
  /\ pc = "write"
  /\ \/ Become(Pace(RecordSucceeded(
                 [Cur EXCEPT !.docs = Written(@, games[idx].name, idx)])))
     \/ Become(CaughtByLoop(Cur, FsMsg))
  /\ UNCHANGED <<env, tokenFile, now, issued, tasks, report>>
  /\ UNCHANGED <<headers, args, ret>>

\* The timer of randomDelay fires.  It runs for at least 5 s: the model
\* takes every request still in flight for the finished entry to be answered
\* by then.
DelayDone ==
  /\ pc = "delay"
  /\ tasks = {}
  /\ Become(LoopNext([Cur EXCEPT !.delayMs = 0, !.dMin = 0, !.dMax = 0]))
  /\ UNCHANGED <<env, tokenFile, now, issued, tasks, report>>
  /\ UNCHANGED <<headers, args, ret>>

\* fs.writeFile of saveUnprocessedGames completes, or fails and the error
\* reaches main's catch (process.exit).
ReportDone ==
  /\ pc = "report"
  /\ \/ /\ report' = CsvLines(unprocessedGames)
        /\ Become(Summary(Cur))
        /\ tasks' = tasks
     \/ /\ report' = report
        /\ Become([Cur EXCEPT !.pc = "exit"])
        /\ tasks' = {}
  /\ UNCHANGED <<env, tokenFile, now, issued>>
  /\ UNCHANGED <<headers, args, ret>>

\* A millisecond passes.
Tick ==
  /\ now < MaxNow
  /\ now' = now + 1
  /\ UNCHANGED <<env, tokenFile, issued, pc, idx, call, tasks, processedCount,
                 failedGames, unprocessedGames, docs, report, summary, hist,
                 delayMs, dMin, dMax>>
  /\ UNCHANGED <<headers, args, ret>>

(***************************************************************************)
(* Actions of the relational sub-fetches (getGenres ... getCompanies)      *)
(***************************************************************************)
\* Promise.all is still pending on the sub-fetches of the entry in hand.
Joining(t) == pc = "join" /\ t.owner = idx

OrchUnchanged ==
  UNCHANGED <<pc, idx, call, processedCount, failedGames, unprocessedGames,
              docs, summary, hist, delayMs, dMin, dMax>>

\* Sub-fetch t goes on suspended in invocation state c.
TaskGoesOn(t, c) ==
  /\ tasks' = (tasks \ {t}) \cup {[t EXCEPT !.call = c]}
  /\ OrchUnchanged

\* Sub-fetch t rejects: Promise.all rejects at once, the catch of
\* getExpandedGameData returns null, and the other sub-fetches stay in flight.
TaskRejects(t, message) ==
  /\ tasks' = tasks \ {t}
  /\ IF Joining(t) THEN Become(CaughtInside(Cur, message)) ELSE OrchUnchanged

\* Sub-fetch t fulfils: when it is the last one, Promise.all fulfils and
\* the loop body goes on to generateMarkdown and fs.writeFile.
TaskFulfils(t) ==
  /\ tasks' = tasks \ {t}
  /\ IF Joining(t) /\ ~\E u \in tasks \ {t} : u.owner = idx
       THEN Become(Resolved(Cur))
       ELSE OrchUnchanged

\* The fields obs, exch and wrote of an invocation record what it has done,
\* for main's invocations; a sub-fetch keeps the program's state only.
Forget(c) ==
  IF c.ph = "post"
    THEN [NewCall EXCEPT !.ph = "post", !.tok = c.tok, !.sent = c.sent]
  ELSE [c EXCEPT !.obs = NoObs, !.exch = 0]

TaskStep(t, c) ==
  IF c.ph = "threw" THEN TaskRejects(t, c.msg) ELSE TaskGoesOn(t, Forget(c))

\* fs.readFile of loadTokenFromFile completes in sub-fetch t.
TaskRead(t) ==
  /\ t.call.ph = "read"
  /\ LET c == AfterToken(AfterLoad(t.call, tokenFile, now, env), env)
     IN  /\ headers' = HeadersAfter(headers, c, env)
         /\ TaskStep(t, Request(c, headers'))
  /\ UNCHANGED <<env, tokenFile, now, issued, report>>
  /\ UNCHANGED <<args, ret>>

\* The identity provider answers the token request of sub-fetch t.
TaskExchange(t) ==
  /\ t.call.ph = "exchange"
  /\ \E resp \in TokenAnswers(issued) :
       /\ issued' = IF resp.ok THEN issued + 1 ELSE issued
       /\ TaskStep(t, AfterExchange(t.call, resp, now))
  /\ UNCHANGED <<env, tokenFile, now, report>>
  /\ UNCHANGED <<headers, args, ret>>

\* fs.writeFile of saveTokenToFile completes in sub-fetch t.
TaskSave(t) ==
  /\ t.call.ph = "save"
  /\ \E ok \in BOOLEAN :
       /\ tokenFile' = IF ok THEN t.call.pend ELSE tokenFile
       /\ LET c == AfterToken(AfterSave(t.call, ok), env)
          IN  /\ headers' = HeadersAfter(headers, c, env)
              /\ TaskStep(t, Request(c, headers'))
  /\ UNCHANGED <<env, now, issued, report>>
  /\ UNCHANGED <<args, ret>>

\* The request of sub-fetch t is answered.  The eighth element of the
\* Promise.all array fetches the involved companies itself (stage 1) and
\* then, in its .then, their companies (stage 2).
TaskPost(t) ==
  /\ t.call.ph = "post"
  /\ \/ TaskRejects(t, HttpMsg)
     \/ /\ t.rel = "companies" /\ t.stage = 1
        /\ TaskGoesOn([t EXCEPT !.stage = 2], NewCall)
     \/ TaskFulfils(t)
  /\ UNCHANGED <<env, tokenFile, now, issued, report>>
  /\ UNCHANGED <<headers, args, ret>>

Next ==
  \/ MainRead \/ MainExchange \/ MainSave \/ ParseDone
  \/ SearchDone \/ GamesDone \/ WriteDone \/ DelayDone \/ ReportDone
  \/ Tick
  \/ \E t \in tasks : TaskRead(t)
  \/ \E t \in tasks : TaskExchange(t)
  \/ \E t \in tasks : TaskSave(t)
  \/ \E t \in tasks : TaskPost(t)

Spec == Init /\ [][Next]_vars

(***************************************************************************)
(* main of auth/token-manager.ts: the token manager run on its own, with   *)
(* or without --refresh                                                    *)
(***************************************************************************)
\* What .token.json may hold when the command starts.
StoreStates ==
  {NoFile, UnreadableFile, BadFile, NullFile, NoExpiryFile}
    \cup {Cred(1, bufferTime + d) : d \in {0, 1, MaxNow + 1}}

\* The command line: `--refresh` makes main call refreshToken, otherwise it
\* calls getValidToken.
CliArgs(fn) == [NoArgs EXCEPT !.fn = fn]

CliInit ==
  /\ env \in [clientId : BOOLEAN, clientSecret : BOOLEAN]
  /\ tokenFile \in StoreStates
  /\ now = 0
  /\ issued = tokenFile.access_token
  /\ pc = "start"
  /\ idx = 0
  /\ call = NewCall
  /\ tasks = {}
  /\ processedCount = 0
  /\ failedGames = <<>>
  /\ unprocessedGames = <<>>
  /\ docs = {}
  /\ report = <<>>
  /\ summary = NoSummary
  /\ hist = [j \in 1..NumGames |-> NoHist]
  /\ delayMs = 0
  /\ dMin = 0
  /\ dMax = 0
  /\ headers = NoHeaders
  /\ args \in {CliArgs("refreshToken"), CliArgs("getValidToken")}
  /\ ret = NoRet

\* main after the token operation settled: the token is logged, or the
\* process exits with code 1.
CliPc(c) ==
  CASE c.ph = "ready" -> "ready"
    [] c.ph = "threw" -> "exit1"
    [] OTHER -> "cli"

CliUnchanged ==
  UNCHANGED <<idx, tasks, processedCount, failedGames, unprocessedGames, docs,
              report, summary, hist, delayMs, dMin, dMax, headers, args,
              ret>>

\* main runs up to the first suspension of the token operation.
CliStart ==
  /\ pc = "start"
  /\ call' = IF args.fn = "refreshToken"
               THEN refreshToken(NewCall, env) ELSE NewCall
  /\ pc' = CliPc(call')
  /\ UNCHANGED <<env, tokenFile, now, issued>>
  /\ CliUnchanged

\* fs.readFile of loadTokenFromFile completes.
CliRead ==
  /\ pc = "cli" /\ call.ph = "read"
  /\ call' = AfterLoad(call, tokenFile, now, env)
  /\ pc' = CliPc(call')
  /\ UNCHANGED <<env, tokenFile, now, issued>>
  /\ CliUnchanged

\* The identity provider answers the token request.
CliExchange ==
  /\ pc = "cli" /\ call.ph = "exchange"
  /\ \E resp \in TokenAnswers(issued) :
       /\ issued' = IF resp.ok THEN issued + 1 ELSE issued
       /\ call' = AfterExchange(call, resp, now)
  /\ pc' = CliPc(call')
  /\ UNCHANGED <<env, tokenFile, now>>
  /\ CliUnchanged

\* fs.writeFile of saveTokenToFile completes; a write that fails leaves the
\* file as it was.
CliSave ==
  /\ pc = "cli" /\ call.ph = "save"
  /\ \E ok \in BOOLEAN :
       /\ tokenFile' = IF ok THEN call.pend ELSE tokenFile
       /\ call' = AfterSave(call, ok)
  /\ pc' = CliPc(call')
  /\ UNCHANGED <<env, now, issued>>
  /\ CliUnchanged

\* A millisecond passes while the command runs.
CliTick ==
  /\ pc = "cli" /\ now < MaxNow
  /\ now' = now + 1
  /\ UNCHANGED <<env, tokenFile, issued, pc, call>>
  /\ CliUnchanged

CliNext == CliStart \/ CliRead \/ CliExchange \/ CliSave \/ CliTick

TokenSpec == CliInit /\ [][CliNext]_vars

(***************************************************************************)
(* Two runs of getValidToken on one credential file: two processes, each   *)
(* with its own TokenManager, neither aware of the other                   *)
(***************************************************************************)
Runs == {1, 2}

\* The field `stage` of a run is the position of its write among the writes
\* of the file, 0 while it has not written.
\* fs.writeFile(tokenFilePath, ...) replaces the contents of the file.
StoreAfterSaveMutKeepFirst(file, c, ok) ==
  IF ok /\ ~\E t \in tasks : t.call.wrote > 0 THEN c.pend ELSE file
StoreAfterSave(file, c, ok) == IF ok THEN c.pend ELSE file

RaceInit ==
  /\ env \in [clientId : BOOLEAN, clientSecret : BOOLEAN]
  /\ tokenFile \in StoreStates
  /\ now = 0
  /\ issued = tokenFile.access_token
  /\ pc = "race"
  /\ idx = 0
  /\ call = NewCall
  /\ tasks = {[owner |-> r, rel |-> "getValidToken", stage |-> 0,
               call |-> NewCall] : r \in Runs}
  /\ processedCount = 0
  /\ failedGames = <<>>
  /\ unprocessedGames = <<>>
  /\ docs = {}
  /\ report = <<>>
  /\ summary = NoSummary
  /\ hist = [j \in 1..NumGames |-> NoHist]
  /\ delayMs = 0
  /\ dMin = 0
  /\ dMax = 0
  /\ headers = NoHeaders
  /\ args = NoArgs
  /\ ret = NoRet

RaceUnchanged ==
  UNCHANGED <<pc, idx, call, processedCount, failedGames, unprocessedGames,
              docs, report, summary, hist, delayMs, dMin, dMax, headers, args,
              ret>>

\* fs.readFile of loadTokenFromFile completes in run t.
RunRead(t) ==
  /\ t.call.ph = "read"
  /\ tasks' = (tasks \ {t})
                \cup {[t EXCEPT !.call = AfterLoad(t.call, tokenFile, now, env)]}
  /\ UNCHANGED <<env, tokenFile, now, issued>>
  /\ RaceUnchanged

\* The identity provider answers the token request of run t.
RunExchange(t) ==
  /\ t.call.ph = "exchange"
  /\ \E resp \in TokenAnswers(issued) :
       /\ issued' = IF resp.ok THEN issued + 1 ELSE issued
       /\ tasks' = (tasks \ {t})
                     \cup {[t EXCEPT !.call = AfterExchange(t.call, resp, now)]}
  /\ UNCHANGED <<env, tokenFile, now>>
  /\ RaceUnchanged

\* fs.writeFile of saveTokenToFile completes in run t.
RunSave(t) ==
  /\ t.call.ph = "save"
  /\ \E ok \in BOOLEAN :
       /\ tokenFile' = StoreAfterSave(tokenFile, t.call, ok)
       /\ tasks' = (tasks \ {t})
                     \cup {[t EXCEPT
                              !.call = AfterSave(t.call, ok),
                              !.stage =
                                IF ok
                                  THEN 1 + Cardinality(
                                         {u \in tasks : u.call.wrote > 0})
                                  ELSE 0]}
  /\ UNCHANGED <<env, now, issued>>
  /\ RaceUnchanged

\* A millisecond passes while a run is under way.
RaceTick ==
  /\ now < MaxNow
  /\ \E t \in tasks : t.call.ph \notin {"ready", "threw"}
  /\ now' = now + 1
  /\ UNCHANGED <<env, tokenFile, issued, tasks>>
  /\ RaceUnchanged

RaceNext ==
  \/ \E t \in tasks : RunRead(t)
  \/ \E t \in tasks : RunExchange(t)
  \/ \E t \in tasks : RunSave(t)
  \/ RaceTick

RaceSpec == RaceInit /\ [][RaceNext]_vars

(***************************************************************************)
(* findBestGameMatch and calculateNameSimilarity applied to bounded inputs *)
(***************************************************************************)
\* The one-letter words of the names.
Letters == <<"a", "b", "c", "d", "e", "f", "g">>
Tokens  == <<"a", "b", "A", "B", "c">>

\* words.join(' ') for a nonempty list of one-letter words.
RECURSIVE JoinWords(_)
JoinWords(ws) ==
  IF Len(ws) = 1 THEN <<ws[1]>> ELSE <<ws[1], " ">> \o JoinWords(Tail(ws))

\* The search name of n words "a b c ...", and a word that is not in it.
Query(n) == JoinWords([k \in 1..n |-> Letters[k]])
Fresh(n) == Letters[n + 1]

\* Names the search service may return for Query(n): the name itself, as it
\* is, capitalised and padded with blanks; the name followed by another
\* word; the name with its last word replaced by another; another word.
CandidateNames(n) ==
  { Query(n),
    [Query(n) EXCEPT ![1] = "A"],
    <<" ">> \o Query(n) \o <<" ">>,
    Query(n) \o <<" ", Fresh(n)>>,
    JoinWords([k \in 1..n |-> IF k = n THEN Fresh(n) ELSE Letters[k]]),
    <<Fresh(n)>> }

\* The candidate lists of at most MaxFound games with those names; the id of
\* a game is its rank in the list.
FoundLists(n) ==
  UNION { { [k \in 1..m |-> [id |-> k, name |-> f[k]]] :
              f \in [1..m -> CandidateNames(n)] } : m \in 0..MaxFound }

\* The names of at most MaxTokens words out of the first NumTokens tokens.
TokenNames ==
  UNION { { JoinWords([k \in 1..m |-> Tokens[f[k]]]) :
              f \in [1..m -> 1..NumTokens] } : m \in 1..MaxTokens }

\* The involvement records and the companies of an expanded record: every
\* record references one of NumCompanies companies and carries the two
\* flags; the company list holds any of those companies, each under its own
\* name.
CompanyNames == <<"Nintendo", "Sega", "Capcom", "Konami">>
InvolvedRecords ==
  [company : 1..NumCompanies, developer : BOOLEAN, publisher : BOOLEAN]
InvolvedLists ==
  UNION {[1..n -> InvolvedRecords] : n \in 0..MaxInvolved}
ListOfIds(ids) ==
  LET n == Cardinality(ids)
      Nth(k) == CHOOSE x \in ids : Cardinality({y \in ids : y < x}) = k - 1
  IN  [k \in 1..n |-> [id |-> Nth(k), name |-> CompanyNames[Nth(k)]]]
CompanyLists == {ListOfIds(ids) : ids \in SUBSET (1..NumCompanies)}

MatchInit ==
  /\ Boot
  /\ env = [clientId |-> TRUE, clientSecret |-> TRUE]
  /\ tokenFile = NoFile
  /\ ret = NoRet
  /\ \/ \E n \in 1..MaxWords : \E found \in FoundLists(n) :
          args = [NoArgs EXCEPT !.fn = "findBestGameMatch",
                                !.str1 = Query(n), !.games = found]
     \/ \E a \in TokenNames : \E b \in TokenNames :
          args = [NoArgs EXCEPT !.fn = "calculateNameSimilarity",
                                !.str1 = a, !.str2 = b]
     \/ \E involved \in InvolvedLists : \E companies \in CompanyLists :
          args = [NoArgs EXCEPT !.fn = "mapToTemplateData",
                                !.involvedCompanies = involved,
                                !.companies = companies]

\* mapToTemplateData(csvGame, expandedData) returns.
MapReturns ==
  /\ args.fn = "mapToTemplateData" /\ ~ret.done
  /\ LET data == mapToTemplateData(args.involvedCompanies, args.companies)
     IN  ret' = [NoRet EXCEPT !.done = TRUE,
                              !.developers = data.developers,
                              !.publishers = data.publishers]
  /\ UNCHANGED <<progVars, args>>

\* findBestGameMatch(searchName, games) returns.
BestMatchReturns ==
  /\ args.fn = "findBestGameMatch" /\ ~ret.done
  /\ ret' = [NoRet EXCEPT !.done = TRUE,
                          !.game = findBestGameMatch(args.str1, args.games)]
  /\ UNCHANGED <<progVars, args>>

\* calculateNameSimilarity(str1, str2) returns.
SimilarityReturns ==
  /\ args.fn = "calculateNameSimilarity" /\ ~ret.done
  /\ ret' = [NoRet EXCEPT !.done = TRUE,
                          !.score = calculateNameSimilarity(args.str1, args.str2)]
  /\ UNCHANGED <<progVars, args>>

MatchNext == BestMatchReturns \/ SimilarityReturns \/ MapReturns

MatchSpec == MatchInit /\ [][MatchNext]_vars

(***************************************************************************)
(* Properties                                                              *)
(***************************************************************************)
\* getValidToken has returned a token in invocation c: setupClient then
\* goes on to the request, or throws for the missing client id.
Returned(c) ==
  \/ c.ph \in {"ready", "post"}
  \/ c.ph = "threw" /\ c.msg = ClientIdMsg

\* getValidToken has thrown in invocation c.
Failed(c) == c.ph = "threw" /\ c.msg # ClientIdMsg

\* The invocation has read the store.
HasRead(c) == c.obs.kind # "none"

\* The credential the invocation read expires more than 5 minutes after the
\* time at which it was tested.
ReadFresh(c) ==
  /\ c.obs.kind = "cred"
  /\ c.obs.expires_at > c.obs.at + 5 * 60 * MsPerSecond

\* C1: a getValidToken that reads a credential with expires_at > now + 5 min
\* sends no token exchange, does not write the credential store and returns
\* exactly the cached access_token.
C1_CachedTokenReused ==
  (HasRead(call) /\ ReadFresh(call)) =>
     /\ Returned(call)
     /\ call.exch = 0
     /\ call.wrote = 0
     /\ call.tok = call.obs.access_token

\* The case of C1 at its boundary: the credential read expires 5 min + 1 ms
\* after the test, and the invocation went on to send its request.
C1_Witness ==
  /\ call.ph = "post"
  /\ call.obs.kind = "cred"
  /\ call.obs.expires_at = call.obs.at + bufferTime + 1
  /\ call.tok = call.obs.access_token

\* C2: a getValidToken that finds the credential absent, unparseable or with
\* expires_at <= now + 5 min and returns has sent exactly one token exchange
\* and saved exactly one new credential, whose access_token it returns and
\* which differs from the token it read; until then, and when it fails, it
\* has sent at most one exchange and saved nothing.
C2_StaleTokenExchanged ==
  (HasRead(call) /\ ~ReadFresh(call)) =>
     /\ Returned(call) =>
          /\ call.exch = 1
          /\ call.wrote = 1
          /\ call.pend.kind = "cred"
          /\ call.tok = call.pend.access_token
          /\ call.tok # call.obs.access_token
          /\ pc = "parse" => tokenFile = call.pend
     /\ ~Returned(call) => call.exch <= 1 /\ call.wrote = 0
     /\ call.ph \in {"exchange", "save"} => call.exch = 1

\* The case of C2 at its boundary: the store held a credential expiring
\* exactly 5 min after the test, and the call returned a new token.
C2_Witness ==
  /\ Returned(call)
  /\ call.obs.kind = "cred"
  /\ call.obs.expires_at = call.obs.at + bufferTime
  /\ call.wrote = 1
  /\ call.tok # call.obs.access_token

\* The invocations that are reading or writing .token.json, and those that
\* are waiting for the identity provider.
InStore(c) == c.ph \in {"read", "save"}
InExchange(c) == c.ph = "exchange"
NumberIn(P(_)) ==
  Cardinality({t \in tasks : P(t.call)})
    + (IF InAuth /\ P(call) THEN 1 ELSE 0)

\* C3: at any moment at most one loadTokenFromFile / saveTokenToFile and at
\* most one token exchange is in progress, also while the sub-fetches of
\* getExpandedGameData are dispatched.
C3_CredentialAccessSerialized ==
  NumberIn(InStore) <= 1 /\ NumberIn(InExchange) <= 1

\* The batch loop is over: the report is being written, the summary was
\* logged, or the process exits.
LoopOver == pc \in {"report", "done", "exit"}

Threw(j) == hist[j].threw # ""

\* C4: when some entry has thrown and the batch loop is over, every entry
\* has been started and has received its outcome; and an entry that has
\* thrown has its outcome at once.
C4_FailureNeverAborts ==
  /\ (LoopOver /\ \E k \in 1..NumGames : Threw(k)) =>
        \A j \in 1..NumGames : hist[j].starts = 1 /\ hist[j].outcomes = 1
  /\ \A k \in 1..NumGames : Threw(k) => hist[k].outcomes = 1

\* The first entry threw at the write of its document, and the last entry
\* was processed after it and its document written.
C4_Witness ==
  /\ pc = "done"
  /\ hist[1].threwIn = "write"
  /\ hist[NumGames].outcomes = 1
  /\ \E d \in docs : d.by = NumGames

\* The rows of the unprocessed list for entry j, and those among them that
\* record a failure with the message of the exception.
RowsOf(j) ==
  {k \in 1..Len(unprocessedGames) : unprocessedGames[k].name = games[j].name}
FailedRowsOf(j) ==
  {k \in RowsOf(j) : unprocessedGames[k].reason = <<"Error:", hist[j].threw>>}

\* C5: an entry in whose processing an exception was raised is recorded as
\* Failed, with a reason carrying the message of the error.
C5_ExceptionIsFailed ==
  \A j \in 1..NumGames :
    (Threw(j) /\ hist[j].outcomes = 1) => FailedRowsOf(j) # {}

\* C6: when entry k alone throws, during resolution, the run ends with one
\* row for k, which records it as Failed, and with no other Failed outcome.
C6_ResolutionFailureIsFailed ==
  \A k \in 1..NumGames :
    ( /\ pc \in {"report", "done"}
      /\ hist[k].threwIn = "resolve"
      /\ \A j \in 1..NumGames \ {k} : ~Threw(j) ) =>
         /\ Cardinality(RowsOf(k)) = 1
         /\ FailedRowsOf(k) = RowsOf(k)
         /\ Len(failedGames) = 1

\* Entry j is in processing: started, its outcome not yet recorded.
InProcessing(j) == hist[j].starts > 0 /\ hist[j].outcomes = 0

C8_DelayAfterEveryEntryButLast ==
  /\ \A j \in 1..(NumGames - 1) :
        hist[j + 1].starts > 0 => hist[j].delays = 1
  /\ hist[NumGames].delays = 0

\* C9: the delay that randomDelay waits lies within [min, max] seconds, for
\* the bounds of the batch loop (5 to 30 s) and, had it been called with
\* them, for every pair of bounds up to MaxSeconds, for every value of
\* Math.random().
C9_DelayWithinBounds ==
  /\ pc = "delay" =>
       /\ dMin = 5 /\ dMax = 30
       /\ dMin * 1000 <= delayMs /\ delayMs <= dMax * 1000
  /\ pc = "delay" =>
       \A mn \in 0..MaxSeconds : \A mx \in mn..MaxSeconds :
         \A r \in RandomValues :
           /\ mn * 1000 <= randomDelay(mn, mx, r)
           /\ randomDelay(mn, mx, r) <= mx * 1000

\* The batch loop waits the longest delay, 30 s, after its first entry.
C9_Witness ==
  pc = "delay" /\ delayMs = 30 * 1000 /\ hist[1].delays = 1

\* The batch loop waits the shortest delay, 5 s.
C9_WitnessMin == pc = "delay" /\ delayMs = 5 * 1000

\* C10: every entry that has its outcome was started once and exactly one
\* search request was issued for it.
C10_OneSearchPerEntry ==
  \A j \in 1..NumGames :
    /\ hist[j].starts <= 1
    /\ hist[j].outcomes <= hist[j].starts
    /\ hist[j].outcomes = 1 => hist[j].searches = 1

\* The entries whose outcome is not Succeeded, and the lines of the report
\* that read back as entry j: name, status, platform and notes as in
\* games.csv, and a reason that is not empty.
NotSucceeded == {j \in 1..NumGames : hist[j].result \in {"Unmatched", "Failed"}}

\* The report of this run: the lines it wrote to unprocessed-games.csv, and
\* no line when it had nothing to report and wrote no file.
ReportOfRun == IF Len(unprocessedGames) > 0 THEN report ELSE <<>>
ReadsAs(f, j) ==
  /\ Len(f) = 5
  /\ f[1] = games[j].name
  /\ f[2] = games[j].status
  /\ f[3] = games[j].platform
  /\ f[4] = games[j].notes
  /\ f[5] # <<>>
LinesOf(read, j) == {k \in 1..Len(read) : ReadsAs(read[k], j)}
NamedIn(read, j) == {k \in 1..Len(read) : read[k][1] = games[j].name}

C12_SummaryAlwaysEmitted ==
  (pc \in {"done", "exit"} /\ hist[1].starts > 0) => summary.emitted

\* C13: a rejected token exchange during the batch run aborts the run: the
\* entry in whose processing it happened gets no outcome, and the process
\* exits.
C13_AuthFailureAborts ==
  \A j \in 1..NumGames :
    hist[j].threw = AuthMsg => pc = "exit" /\ hist[j].outcomes = 0

\* C14: with the client id or the client secret missing from the
\* environment no entry is processed, whatever .token.json holds.
C14_ConfigErrorBeforeAnyEntry ==
  ~HasCredentials(env) => \A j \in 1..NumGames : hist[j].starts = 0

\* findBestGameMatch has returned for the arguments in args.
Matched == args.fn = "findBestGameMatch" /\ ret.done

\* The ranks of the candidates whose name equals the search name when case
\* and surrounding blanks are ignored.
ExactRanks ==
  {k \in 1..Len(args.games) :
     trim(toLowerCase(args.games[k].name)) = trim(toLowerCase(args.str1))}

\* C15: when a candidate's name equals the search name, case and
\* surrounding blanks ignored, findBestGameMatch returns the first such
\* candidate of the list, whatever the other candidates are.
C15_ExactMatchWins ==
  (Matched /\ ExactRanks # {}) =>
     /\ ret.game.id \in ExactRanks
     /\ \A k \in ExactRanks : ret.game.id <= k
     /\ ret.game = args.games[ret.game.id]

\* The first candidate contains the search name, the second is the search
\* name capitalised or padded, and the second was returned.
C15_Witness ==
  /\ Matched
  /\ Len(args.games) = 2
  /\ ExactRanks = {2}
  /\ args.games[2].name # args.str1
  /\ includes(args.games[1].name, args.str1)
  /\ ret.game = args.games[2]

\* Two exact candidates: the first of them was returned.
C15_WitnessFirst ==
  Matched /\ ExactRanks = {1, 2} /\ ret.game.id = 1
    /\ args.games[1].name # args.games[2].name

\* calculateNameSimilarity has returned for the arguments in args.
Scored == args.fn = "calculateNameSimilarity" /\ ret.done

\* Two scores are the same number.
SameScore(a, b) == a.num * b.den = b.num * a.den

\* C16: the score of (str1, str2) equals the score of (str2, str1).
C16_SimilaritySymmetric ==
  Scored =>
    SameScore(ret.score, calculateNameSimilarity(args.str2, args.str1))

\* C17: the score lies between 0 and 1 inclusive.
C17_ScoreWithinUnitInterval ==
  Scored => 0 <= ret.score.num /\ ret.score.num <= ret.score.den

\* The two names in lower case without surrounding blanks, and the sets of
\* their words.
Lowered1 == trim(toLowerCase(args.str1))
Lowered2 == trim(toLowerCase(args.str2))
WordSet1 == Range(split(Lowered1))
WordSet2 == Range(split(Lowered2))

\* C18: for two names that differ, the score is 0.8 when one contains the
\* other, and otherwise the number of distinct common words divided by the
\* number of distinct words of both.
C18_ContainmentOrJaccard ==
  (Scored /\ Lowered1 # Lowered2) =>
     IF includes(Lowered1, Lowered2) \/ includes(Lowered2, Lowered1)
       THEN SameScore(ret.score, [num |-> 4, den |-> 5])
       ELSE SameScore(ret.score,
                      [num |-> Cardinality(WordSet1 \cap WordSet2),
                       den |-> Cardinality(WordSet1 \cup WordSet2)])

\* The score of the candidate of rank k against the search name, and the
\* rank of the top-scored candidate: the first of those with the highest
\* score.
ScoreOf(k) == calculateNameSimilarity(args.str1, args.games[k].name)
TopRanks ==
  {k \in 1..Len(args.games) :
     /\ \A m \in 1..Len(args.games) : ~ScoreGt(ScoreOf(m), ScoreOf(k))
     /\ \A m \in 1..(k - 1) : ScoreGt(ScoreOf(k), ScoreOf(m))}
SixTenths == [num |-> 6, den |-> 10]

\* findBestGameMatch has returned for a nonempty list without exact match.
MatchedByScore == Matched /\ ExactRanks = {} /\ Len(args.games) > 0

\* C19: without an exact match, the top-scored candidate is returned when
\* its score is greater than 0.6; when its score is exactly 0.6 and it is
\* not the first of the list, it is not returned.
C19_ThresholdIsStrict ==
  MatchedByScore =>
    \A k \in TopRanks :
      /\ ScoreGt(ScoreOf(k), SixTenths) => ret.game = args.games[k]
      /\ (SameScore(ScoreOf(k), SixTenths) /\ k # 1) =>
            ret.game # args.games[k]

\* The second candidate shares 3 of 5 words with the search name, score
\* 0.6, the first one none, and the first one was returned.
C19_Witness ==
  /\ MatchedByScore
  /\ TopRanks = {2}
  /\ ScoreOf(2) = [num |-> 3, den |-> 5]
  /\ ret.game = args.games[1]

\* A candidate with a score above 0.6 that is not the first was returned.
C19_WitnessAbove ==
  /\ MatchedByScore
  /\ TopRanks = {2}
  /\ ScoreGt(ScoreOf(2), SixTenths)
  /\ ret.game = args.games[2]

\* C20: without an exact match and with a top score of at most 0.6,
\* findBestGameMatch returns the first candidate of the list as the service
\* ranked it, whatever its score.
C20_FallbackToFirstOfList ==
  (MatchedByScore /\ \A k \in TopRanks : ~ScoreGt(ScoreOf(k), SixTenths)) =>
     ret.game = args.games[1]

\* The first candidate scores 0 and the second scores more, yet at most
\* 0.6: the first one was returned.
C20_Witness ==
  /\ MatchedByScore
  /\ TopRanks = {2}
  /\ ScoreOf(1).num = 0
  /\ ScoreOf(2).num > 0
  /\ ~ScoreGt(ScoreOf(2), SixTenths)
  /\ ret.game = args.games[1]
  /\ ret.game # args.games[2]

\* The rows of the unprocessed list that record entry j as Unmatched.
UnmatchedRowsOf(j) ==
  {k \in RowsOf(j) : unprocessedGames[k].reason = <<"No IGDB data found">>}

\* The lines of the written report that name entry j.
ReportLinesOf(j) ==
  {k \in 1..Len(ReportOfRun) : LineFields(ReportOfRun[k])[1] = games[j].name}

\* C21: an entry whose search returned an empty list is Unmatched with the
\* reason "No IGDB data found", no game lookup is sent for it, and the
\* report of the ended run has exactly one line for it.
C21_EmptySearchIsUnmatched ==
  \A j \in 1..NumGames :
    hist[j].answer = "empty" =>
      /\ hist[j].result = "Unmatched"
      /\ hist[j].outcomes = 1
      /\ Cardinality(RowsOf(j)) = 1 /\ UnmatchedRowsOf(j) = RowsOf(j)
      /\ hist[j].lookups = 0
      /\ \A t \in tasks : t.owner # j
      /\ pc = "done" => Cardinality(ReportLinesOf(j)) = 1

\* The run ended, the search of the last entry had returned an empty list
\* and the report names it.
C21_Witness ==
  /\ pc = "done"
  /\ hist[NumGames].answer = "empty"
  /\ hist[1].result = "Succeeded"
  /\ Len(report) = 1

\* Entry j has its outcome after a search that returned its exact name, a
\* resolution that yielded the expanded data and a document write that did
\* not fail.
WentWell(j) ==
  /\ hist[j].answer = "exact"
  /\ hist[j].resolved = "ready"
  /\ ~Threw(j)
  /\ hist[j].outcomes = 1

SucceededSet == {j \in 1..NumGames : hist[j].result = "Succeeded"}

\* C23: an entry whose document write failed after its resolution is
\* recorded as Failed with the reason "Error:" and the message of the
\* error, not as Unmatched, and is not counted as Succeeded.
C23_WriteFailureIsFailed ==
  /\ \A j \in 1..NumGames :
       hist[j].threwIn = "write" =>
         /\ hist[j].resolved = "ready"
         /\ hist[j].result = "Failed"
         /\ Cardinality(RowsOf(j)) = 1
         /\ FailedRowsOf(j) = RowsOf(j)
         /\ UnmatchedRowsOf(j) = {}
         /\ \E k \in 1..Len(failedGames) :
              failedGames[k] = [name |-> games[j].name, error |-> hist[j].threw]
         /\ \A d \in docs : d.by # j
  /\ processedCount = Cardinality(SucceededSet)

\* The document write of the first entry failed and the run ended.
C23_Witness ==
  /\ pc = "done"
  /\ hist[1].threwIn = "write"
  /\ hist[1].threw = FsMsg
  /\ summary.failed = 1

\* C24: refreshToken never reads the credential file: whatever the file
\* holds, it sends exactly one token request when the environment is set,
\* and when it returns, the file holds the credential of that request and
\* the token returned is the newly granted one.
C24_RefreshNeverConsultsCache ==
  args.fn = "refreshToken" =>
    /\ call.obs.kind = "none"
    /\ (HasCredentials(env) /\ pc # "start") => call.exch = 1
    /\ pc = "ready" =>
         /\ call.exch = 1
         /\ call.wrote = 1
         /\ tokenFile.kind = "cred"
         /\ tokenFile = call.pend
         /\ call.tok = tokenFile.access_token
         /\ call.tok = issued
         /\ tokenFile.expires_at = call.pend.expires_at

\* refreshToken returned the second token: the file held the first one.
C24_Witness ==
  /\ args.fn = "refreshToken"
  /\ pc = "ready"
  /\ call.tok = 2
  /\ tokenFile.access_token = 2

\* refreshToken has sent its request while the file holds a credential that
\* outlives the run.
C24_WitnessValidCache ==
  /\ args.fn = "refreshToken"
  /\ call.ph = "save"
  /\ tokenFile = Cred(1, bufferTime + MaxNow + 1)

\* The store states in which loadTokenFromFile finds no credential record.
NotACredential == {"missing", "unreadable", "garbage", "null", "noexpiry"}

\* C25: loadTokenFromFile never throws: when the file is missing,
\* unreadable, not JSON, `null` or a record without expires_at it returns
\* nothing and getValidToken goes on to request a token; a credential
\* record is returned when it is fresh and nothing is returned otherwise.
C25_LoadNeverThrows ==
  /\ call.msg # LoadMsg
  /\ call.obs.kind \in NotACredential =>
       /\ call.exch = 1 \/ call.msg = ConfigMsg
       /\ call.tok # 0 => call.wrote = 1
  /\ call.obs.kind = "cred" =>
       IF IsFresh(call.obs, call.obs.at)
         THEN call.ph = "ready" /\ call.tok = call.obs.access_token
                /\ call.exch = 0
         ELSE call.exch = 1 \/ call.msg = ConfigMsg

\* The file held the JSON text `null`, and getValidToken has gone on to the
\* token request.
C25_Witness ==
  /\ call.obs.kind = "null"
  /\ call.ph = "exchange"

\* C26: when fs.writeFile of saveTokenToFile fails after a granted token
\* request, getValidToken or refreshToken throws that error, returns no
\* token, and main exits with code 1.
C26_PersistFailureSurfaces ==
  (call.pend # NoFile /\ call.ph # "save" /\ call.wrote = 0) =>
    /\ call.ph = "threw"
    /\ call.msg = FsMsg
    /\ call.tok = 0
    /\ pc = "exit1"
    /\ tokenFile # call.pend

\* The write of refreshToken's credential failed.
C26_Witness ==
  /\ args.fn = "refreshToken"
  /\ call.pend # NoFile
  /\ call.msg = FsMsg
  /\ pc = "exit1"

\* The write of getValidToken's credential failed.
C26_WitnessGetValidToken ==
  /\ args.fn = "getValidToken"
  /\ call.pend # NoFile
  /\ call.msg = FsMsg
  /\ pc = "exit1"

\* C27: when the identity provider answers with a non-success status, the
\* error of the token operation carries the HTTP status and the body of
\* the response.
C27_AuthErrorCarriesStatusAndBody ==
  call.msg = AuthMsg =>
    /\ Rejected.status \in Range(call.thrown)
    /\ Rejected.data \in Range(call.thrown)

\* The status alone is carried by the error.
C27_StatusCarried ==
  call.msg = AuthMsg => Rejected.status \in Range(call.thrown)

\* The sub-fetches of entry j that are in flight.
TasksOf(j) == {t \in tasks : t.owner = j}

\* A relational sub-fetch of entry j failed: the base record was found and
\* the catch of getExpandedGameData ran.
SubFetchFailed(j) ==
  hist[j].resolved = "base" /\ hist[j].threwIn = "resolve"

\* C28: when a relational sub-fetch of an entry fails, the resolution of
\* the entry ends in the failure handler of getExpandedGameData: no
\* expanded record is returned, no document is rendered or written, and the
\* entry is not Succeeded.  An expanded record is returned only when every
\* sub-fetch of the entry has fulfilled.
C28_ResolutionAllOrNothing ==
  \A j \in 1..NumGames :
    /\ SubFetchFailed(j) =>
         /\ hist[j].threw # ""
         /\ hist[j].outcomes = 1
         /\ hist[j].result # "Succeeded"
         /\ \A d \in docs : d.by # j
         /\ idx = j => pc \notin {"join", "write"}
    /\ hist[j].resolved = "ready" =>
         /\ hist[j].threwIn # "resolve"
         /\ TasksOf(j) = {}

\* A sub-fetch of the first entry failed while another one was in flight.
C28_Witness ==
  /\ SubFetchFailed(1)
  /\ TasksOf(1) # {}
  /\ hist[1].outcomes = 1

\* C29: when getGames returns no record, getExpandedGameData returns null
\* without an exception and without a relational sub-fetch: the entry is
\* Unmatched after one lookup.
C29_MissingBaseReturnsNothing ==
  \A j \in 1..NumGames :
    hist[j].resolved = "missing" =>
      /\ hist[j].threw = ""
      /\ hist[j].threwIn = ""
      /\ TasksOf(j) = {}
      /\ hist[j].lookups = 1
      /\ hist[j].outcomes = 1
      /\ hist[j].result = "Unmatched"
      /\ \A d \in docs : d.by # j

\* The base record of the first entry was missing and the run ended.
C29_Witness ==
  /\ pc = "done"
  /\ hist[1].resolved = "missing"
  /\ hist[1].result = "Unmatched"

\* The invocations of setupClient and the request that follows it: main's
\* current one and those of the sub-fetches in flight.
Calls == {call} \cup {t.call : t \in tasks}

\* C30: a metadata request is sent only after the getValidToken of the same
\* invocation returned, and carries that token and the client id; an
\* invocation that did not get a token or a client id sent no request.
C30_RequestCarriesOwnToken ==
  /\ \A c \in Calls :
       /\ c.ph = "post" =>
            /\ c.tok \in 1..issued
            /\ c.sent = [auth |-> c.tok, clientId |-> TRUE]
            /\ env.clientId
       /\ c.ph # "post" => c.sent = NoHeaders
  /\ call.ph = "post" =>
       /\ call.obs.kind # "none"
       /\ \/ call.exch = 0 /\ call.tok = call.obs.access_token
          \/ call.exch = 1 /\ call.wrote = 1 /\ call.tok = call.pend.access_token
  /\ ~env.clientId =>
       /\ headers = NoHeaders
       /\ \A j \in 1..NumGames :
            hist[j].searches = 0 /\ hist[j].lookups = 0 /\ TasksOf(j) = {}

\* A sub-fetch sent its request with the second token while the lookup of
\* its entry had been sent with the first.
C30_Witness ==
  /\ pc = "join"
  /\ call.sent.auth = 1
  /\ \E t \in tasks : t.call.ph = "post" /\ t.call.sent.auth = 2

\* The search of an entry was sent with a token exchanged in its own call.
C30_WitnessExchanged ==
  /\ pc = "search"
  /\ call.ph = "post"
  /\ call.exch = 1
  /\ call.sent.auth = call.pend.access_token

\* mapToTemplateData has returned.
Mapped == args.fn = "mapToTemplateData" /\ ret.done

\* Some involvement record references company c with the flag set.
Involved(c, flag) ==
  \E i \in 1..Len(args.involvedCompanies) :
    /\ args.involvedCompanies[i].company = c.id
    /\ args.involvedCompanies[i][flag]

\* C31: the name of a company of the resolved record is in the developers
\* (publishers) list exactly when an involvement record references the
\* company with developer (publisher) set, and the lists hold nothing but
\* names of those companies.
C31_DevelopersAndPublishersByFlag ==
  Mapped =>
    /\ \A k \in 1..Len(args.companies) :
         LET c == args.companies[k]
         IN  /\ c.name \in Range(ret.developers) <=> Involved(c, "developer")
             /\ c.name \in Range(ret.publishers) <=> Involved(c, "publisher")
    /\ Range(ret.developers) \cup Range(ret.publishers)
         \subseteq {args.companies[k].name : k \in 1..Len(args.companies)}

\* One company with both flags is in both lists and one with neither is in
\* none.
C31_Witness ==
  /\ Mapped
  /\ Len(args.companies) = NumCompanies
  /\ \E i \in 1..Len(args.involvedCompanies) :
       /\ args.involvedCompanies[i].company = 1
       /\ args.involvedCompanies[i].developer
       /\ args.involvedCompanies[i].publisher
  /\ \E i \in 1..Len(args.involvedCompanies) :
       /\ args.involvedCompanies[i].company = 2
       /\ ~args.involvedCompanies[i].developer
       /\ ~args.involvedCompanies[i].publisher
  /\ ~Involved(args.companies[2], "developer")
  /\ ~Involved(args.companies[2], "publisher")
  /\ CompanyNames[1] \in Range(ret.developers)
  /\ CompanyNames[1] \in Range(ret.publishers)
  /\ CompanyNames[2] \notin Range(ret.developers) \cup Range(ret.publishers)

\* C32: at the end of the run the output directory holds as many documents
\* as there are Succeeded entries.
C32_OneDocumentPerSucceeded ==
  pc = "done" => Cardinality(docs) = Cardinality(SucceededSet)

\* No more documents than Succeeded entries, and every document is the one
\* of a Succeeded entry.
C32_NoDocumentWithoutSuccess ==
  /\ Cardinality(docs) <= Cardinality(SucceededSet)
  /\ \A d \in docs : d.by \in SucceededSet

\* Run t read the file and found no credential it could use.
FoundNothing(t) ==
  /\ t.call.obs.kind # "none"
  /\ ~(t.call.obs.kind = "cred" /\ IsFresh(t.call.obs, t.call.obs.at))

\* The runs that have written the file.
Writers == {t \in tasks : t.call.wrote > 0}

\* C33: of two uncoordinated runs of getValidToken, each one that finds no
\* usable credential sends its own token request (when the environment is
\* set) and returns the token of that request; the file holds the
\* credential of the run that wrote last.
C33_UncoordinatedRunsRace ==
  /\ \A t \in tasks :
       /\ (FoundNothing(t) /\ HasCredentials(env)) => t.call.exch = 1
       /\ (t.call.ph = "ready" /\ t.call.exch = 1) =>
            t.call.tok = t.call.pend.access_token
  /\ Writers # {} =>
       \E t \in Writers :
         /\ \A u \in Writers : u.stage <= t.stage
         /\ tokenFile = t.call.pend

\* Both runs found nothing, exchanged and returned; the run that wrote
\* first returned a token that is not the one left in the file.
C33_Witness ==
  /\ \A t \in tasks :
       FoundNothing(t) /\ t.call.ph = "ready" /\ t.call.exch = 1
  /\ \E t \in tasks :
       t.stage = 1 /\ t.call.tok # tokenFile.access_token

\* C34: findBestGameMatch returns null exactly when the candidate list is
\* empty, and a member of the list otherwise.
C34_NullOnlyForEmptyList ==
  Matched =>
    /\ ret.game = NoGame <=> Len(args.games) = 0
    /\ Len(args.games) > 0 => ret.game \in Range(args.games)

\* A full list of which no candidate shares a word with the search name:
\* a member of the list was returned all the same.
C34_Witness ==
  /\ Matched
  /\ Len(args.games) = MaxFound
  /\ \A k \in 1..Len(args.games) :
       calculateNameSimilarity(args.str1, args.games[k].name).num = 0
  /\ ret.game \in Range(args.games)

\* The empty list: nothing was returned.
C34_WitnessEmpty ==
  /\ Matched
  /\ Len(args.games) = 0
  /\ ret.game = NoGame

\* In the batch loop an entry whose search returned candidates is Unmatched
\* only through the lookup that follows the match: its base record was
\* missing, or an exception was caught.
C34_NeverUnmatchedByMatching ==
  \A j \in 1..NumGames :
    (hist[j].answer \in {"exact", "other"} /\ hist[j].result = "Unmatched") =>
       hist[j].resolved = "missing" \/ hist[j].threwIn = "resolve"

\* The entries whose outcome has been recorded, and the rows of the
\* unprocessed list of each kind.
Finished == {j \in 1..NumGames : hist[j].outcomes > 0}
UnmatchedRows ==
  {k \in 1..Len(unprocessedGames) : unprocessedGames[k].reason = NoDataReason}
FailedRows ==
  {k \in 1..Len(unprocessedGames) :
     /\ Len(unprocessedGames[k].reason) > 0
     /\ unprocessedGames[k].reason[1] = "Error:"}

\* C35: every finished entry has exactly one outcome, and at every point of
\* the batch loop the succeeded count, the Unmatched rows and the Failed
\* rows add up to the number of finished entries; after the loop they add
\* up to the number of entries, and so do the counts of the summary.
C35_CountsPartitionEntries ==
  /\ \A j \in 1..NumGames :
       /\ hist[j].outcomes <= 1
       /\ (hist[j].starts > 0 /\ (j < idx \/ LoopOver)) => hist[j].outcomes = 1
       /\ hist[j].outcomes = 1 =>
            Cardinality(RowsOf(j)) =
              IF hist[j].result = "Succeeded" THEN 0 ELSE 1
  /\ UnmatchedRows \cap FailedRows = {}
  /\ UnmatchedRows \cup FailedRows = 1..Len(unprocessedGames)
  /\ processedCount + Cardinality(UnmatchedRows) + Cardinality(FailedRows)
       = Cardinality(Finished)
  /\ pc \in {"report", "done"} =>
       processedCount + Len(unprocessedGames) = NumGames
  /\ summary.emitted =>
       /\ summary.succeeded + summary.unmatched + summary.failed = NumGames
       /\ summary.succeeded = processedCount
       /\ summary.unmatched = Cardinality(UnmatchedRows)
       /\ summary.failed = Cardinality(FailedRows)

\* The run ended with one entry of each of two kinds and the summary.
C35_Witness ==
  /\ pc = "done"
  /\ summary.emitted
  /\ summary.succeeded = 1
  /\ summary.failed = 1
  /\ summary.unmatched = NumGames - 2

\* In the middle of the loop: one entry is finished, the next is in hand.
C35_WitnessMidLoop ==
  /\ pc = "search"
  /\ idx = 2
  /\ Cardinality(Finished) = 1
  /\ Cardinality(UnmatchedRows) = 1

\* The orchestrator has left entry j behind: its outcome is recorded and
\* the loop is in the delay, at a later entry, or over.
MovedOn(j) ==
  /\ hist[j].outcomes = 1
  /\ idx # j \/ pc \in {"delay", "report", "done", "exit"}

\* C36: once the outcome of an entry is recorded and the loop has moved on,
\* none of the entry's sub-fetches (its token read, token request, token
\* write or metadata request) is in flight.
C36_NothingInFlightAfterOutcome ==
  \A j \in 1..NumGames : MovedOn(j) => TasksOf(j) = {}

\* When the resolution of an entry succeeded, none of its sub-fetches is in
\* flight afterwards.
C36_QuietAfterSuccess ==
  \A j \in 1..NumGames :
    (MovedOn(j) /\ ~SubFetchFailed(j)) => TasksOf(j) = {}

\* The token request of the invocation failed: the environment lacks the
\* client id or secret, or the identity provider refused.
ExchangeFailed(c) == c.msg \in {ConfigMsg, AuthMsg}

\* C37: when the token request of getValidToken or refreshToken fails, the
\* operation throws without having written the credential file, and the
\* file changes only in the step in which an operation whose request was
\* granted completes its write.
C37_FailedExchangeLeavesStore ==
  /\ [](ExchangeFailed(call) =>
          /\ call.ph = "threw"
          /\ call.wrote = 0
          /\ call.pend = NoFile
          /\ pc = "exit1")
  /\ [][ /\ ExchangeFailed(call') => tokenFile' = tokenFile
         /\ tokenFile' # tokenFile =>
              /\ call.ph = "save"
              /\ call'.wrote = call.wrote + 1
              /\ tokenFile' = call.pend ]_vars

\* refreshToken was refused while the file held a credential, which is
\* still there.
C37_Witness ==
  /\ args.fn = "refreshToken"
  /\ call.msg = AuthMsg
  /\ pc = "exit1"
  /\ tokenFile = Cred(1, bufferTime + MaxNow + 1)

\* getValidToken found a stale credential and the environment lacks the
\* secret: the stale credential is still in the file.
C37_WitnessConfig ==
  /\ args.fn = "getValidToken"
  /\ call.msg = ConfigMsg
  /\ pc = "exit1"
  /\ tokenFile = Cred(1, bufferTime)

\* The endpoint the request of sub-fetch t goes to: the eighth element of
\* the Promise.all array first asks for the involved companies itself.
Endpoint(t) ==
  IF t.rel = "companies" /\ t.stage = 1 THEN "involved_companies" ELSE t.rel

\* The sub-fetches of entry j whose request has been sent.
SentOf(j) == {t \in TasksOf(j) : t.call.ph = "post"}

\* C38: the resolution of an entry sends at most one request per relation:
\* no two requests of one entry go to the same endpoint.
C38_OneRequestPerRelation ==
  \A j \in 1..NumGames :
    \A t \in SentOf(j) : \A u \in SentOf(j) :
      t # u => Endpoint(t) # Endpoint(u)

\* Every relation but the involved companies is requested at most once.
C38_PlainRelationsOnce ==
  \A j \in 1..NumGames :
    \A t \in SentOf(j) : \A u \in SentOf(j) :
      (t # u /\ Endpoint(t) = Endpoint(u)) =>
         Endpoint(t) = "involved_companies"

\* Entry j never got as far as the rendering of its document: its search
\* returned nothing or failed, or its resolution failed or found no base
\* record.
NotReady(j) ==
  \/ hist[j].answer = "empty"
  \/ hist[j].threwIn \in {"search", "resolve"}
  \/ hist[j].resolved = "missing"

\* C39: every document of the output directory was written for an entry
\* whose expanded data was ready, and no document was written for an entry
\* whose search returned nothing or whose search or resolution failed.
C39_DocumentsOnlyWhenReady ==
  /\ \A d \in docs :
       /\ hist[d.by].resolved = "ready"
       /\ hist[d.by].answer \in {"exact", "other"}
       /\ ~NotReady(d.by)
  /\ \A j \in 1..NumGames : NotReady(j) => \A d \in docs : d.by # j

\* The search of the second entry returned nothing; the file its name maps
\* to holds the document of the first entry, which succeeded.
C39_Witness ==
  /\ pc = "done"
  /\ hist[2].answer = "empty"
  /\ hist[1].result = "Succeeded"
  /\ docs = {[file |-> sanitizeFilename(games[2].name), by |-> 1]}

\* C40: when the run ends with every entry Succeeded, unprocessed-games.csv
\* is as the earlier run left it and still names that run's entry; the file
\* differs from the earlier one only after a run that had something to
\* report.
C40_ReportUntouchedWhenAllSucceed ==
  /\ (pc = "done" /\ SucceededSet = 1..NumGames) =>
        /\ report = OldReport
        /\ \E k \in 1..Len(report) : LineFields(report[k])[1] = games[1].name
  /\ report # OldReport => Len(unprocessedGames) > 0 /\ pc = "done"
  /\ pc = "report" => Len(unprocessedGames) > 0

\* Every entry succeeded, the first one included, which the report of the
\* earlier run still lists.
C40_Witness ==
  /\ pc = "done"
  /\ SucceededSet = 1..NumGames
  /\ summary.succeeded = NumGames
  /\ report = OldReport
  /\ Len(report) = 1

====
